---- MODULE Spec2Model ----
(***************************************************************************)
(* KeyCare-Gemini3 backend (src/backend-api/main.py): the /mediate         *)
(* pipeline.  A request (text, tone, lang_hint) is classified and          *)
(* rewritten by an external LLM service; the answer is normalised by       *)
(* validate_and_fix_response, its rewrite is checked by                    *)
(* contains_profanity, regenerated once by a stricter call if flagged,     *)
(* and returned as a MediationResponse.                                    *)
(*                                                                         *)
(* Python strings are modelled as sequences of characters.  An ASCII       *)
(* character is the one-character string holding it; any other character   *)
(* is the string "U+XXXX" of its code point.  The non-ASCII literals of    *)
(* main.py are transcribed code point by code point, as the file holds     *)
(* them.                                                                   *)
(***************************************************************************)
EXTENDS Integers, Sequences, FiniteSets, TLC

----------------------------------------------------------------------------
(* Strings *)

\* The character sequence of an ASCII string literal.
S(lit) == [i \in 1..Len(lit) |-> SubSeq(lit, i, i)] \o <<>>

ASCII_UPPER == S("ABCDEFGHIJKLMNOPQRSTUVWXYZ")
ASCII_LOWER == S("abcdefghijklmnopqrstuvwxyz")
ASCII_DIGIT == S("0123456789")

\* Upper-case characters outside ASCII that occur in the model, with the
\* lower-case character str.lower() maps each to.
NONASCII_LOWER ==
  {<<"U+00C3", "U+00E3">>, <<"U+00D8", "U+00F8">>, <<"U+00D9", "U+00F9">>,
   <<"U+00C9", "U+00E9">>, <<"U+0152", "U+0153">>, <<"U+0160", "U+0161">>}

\* Each upper-case character of the model with its lower-case character.
LOWER_OF ==
  LET pairs == {<<ASCII_UPPER[i], ASCII_LOWER[i]>> : i \in 1..Len(ASCII_UPPER)}
                 \cup NONASCII_LOWER
  IN  [c \in {p[1] : p \in pairs} |-> (CHOOSE p \in pairs : p[1] = c)[2]] @@ <<>>

\* str.lower() on one character.
LowerChar(c) == IF c \in DOMAIN LOWER_OF THEN LOWER_OF[c] ELSE c

\* str.lower()
Lower(s) == [i \in 1..Len(s) |-> LowerChar(s[i])] \o <<>>

\* Characters str.strip() removes (str.isspace()).
WHITESPACE == {" ", "U+0009", "U+000A", "U+000D", "U+00A0"}

\* Characters outside ASCII that the regular expression class \w matches
\* (letters and numerics), among those that occur in the model.
NONASCII_WORD ==
  {"U+00AA", "U+00B2", "U+00B3", "U+00B9", "U+00BA", "U+00BC", "U+00C3", "U+00C9",
   "U+00D8", "U+00D9", "U+00E3", "U+00E9", "U+00F8", "U+00F9", "U+0152", "U+0153",
   "U+0160", "U+0161", "U+0192", "U+02C6", "U+0627", "U+0633", "U+0644", "U+0645"}

\* The class \w of the re module on str patterns.
IsWordChar(c) ==
  \/ \E i \in 1..Len(ASCII_UPPER) : c = ASCII_UPPER[i] \/ c = ASCII_LOWER[i]
  \/ \E i \in 1..Len(ASCII_DIGIT) : c = ASCII_DIGIT[i]
  \/ c = "_"
  \/ c \in NONASCII_WORD

\* str.lstrip() and str.rstrip()
RECURSIVE LStrip(_)
LStrip(s) == IF s # <<>> /\ Head(s) \in WHITESPACE THEN LStrip(Tail(s)) ELSE s

RECURSIVE RStrip(_)
RStrip(s) ==
  IF s # <<>> /\ s[Len(s)] \in WHITESPACE THEN RStrip(SubSeq(s, 1, Len(s) - 1)) ELSE s

\* str.strip(): the string without its leading and trailing whitespace.
Strip(s) == RStrip(LStrip(s))

\* Python's `w in s` on strings: w occurs in s as a contiguous substring.
Contains(s, w) ==
  \E i \in 1..(Len(s) - Len(w) + 1) : \A j \in 1..Len(w) : s[i + j - 1] = w[j]

\* re.findall(r'\b\w+\b', s): the maximal runs of word characters of s.
WordStarts(s) ==
  {i \in 1..Len(s) : IsWordChar(s[i]) /\ (i = 1 \/ ~IsWordChar(s[i - 1]))}

WordEnd(s, i) ==
  CHOOSE j \in i..Len(s) :
    /\ \A k \in i..j : IsWordChar(s[k])
    /\ (j = Len(s) \/ ~IsWordChar(s[j + 1]))

FindWords(s) == {SubSeq(s, i, WordEnd(s, i)) : i \in WordStarts(s)}

\* ord(c): the code point of a character.
\* The printable ASCII characters U+0020..U+005F and U+0061..U+007E.
ASCII_FROM_SPACE == S(" !\"#$%&'()*+,-./0123456789:;<=>?@ABCDEFGHIJKLMNOPQRSTUVWXYZ[\\]^_")
ASCII_FROM_A == S("abcdefghijklmnopqrstuvwxyz{|}~")

HEX_DIGITS == S("0123456789ABCDEF")

HexDigit(d) == (CHOOSE i \in 1..Len(HEX_DIGITS) : HEX_DIGITS[i] = d) - 1

Ord(c) ==
  IF Len(c) = 1
    THEN IF \E i \in 1..Len(ASCII_FROM_A) : ASCII_FROM_A[i] = c
           THEN (CHOOSE i \in 1..Len(ASCII_FROM_A) : ASCII_FROM_A[i] = c) + 96
           ELSE (CHOOSE i \in 1..Len(ASCII_FROM_SPACE) : ASCII_FROM_SPACE[i] = c) + 31
    ELSE LET h == S(c)
         IN  ((HexDigit(h[3]) * 16 + HexDigit(h[4])) * 16 + HexDigit(h[5])) * 16
               + HexDigit(h[6])

----------------------------------------------------------------------------
(* Profanity lists, main.py:39-47 *)

\* main.py:39
PROFANITY_EN ==
  {
    S("fuck"), S("shit"), S("bitch"), S("ass"), S("damn"), S("bastard"), S("crap"), S("dick"),
    S("cock"), S("pussy"), S("whore"), S("slut"), S("retard"), S("fag"), S("nigger"), S("cunt")
  }

\* main.py:40
INSULTS_EN ==
  {
    S("stupid"), S("idiot"), S("dumb"), S("moron"), S("loser"), S("ugly"), S("pathetic"),
    S("worthless"), S("trash"), S("garbage"), S("disgusting")
  }

\* main.py:41
PROFANITY_FR ==
  {
    S("merde"), S("putain"), S("connard"), S("connasse"), S("encul") \o <<"U+00C3", "U+00A9">>,
    S("salaud"), S("salope"), S("bordel"), S("nique"), S("foutre"), S("con"), S("conne")
  }

\* main.py:42
INSULTS_FR ==
  {
    S("idiot"), S("stupide"), S("d") \o <<"U+00C3", "U+00A9">> \o S("bile"),
    S("cr") \o <<"U+00C3", "U+00A9">> \o S("tin"), S("nul"), S("nulle"),
    S("imb") \o <<"U+00C3", "U+00A9">> \o S("cile"), S("abruti")
  }

\* main.py:43
PROFANITY_AR ==
  {
    <<"U+00D8", "U+00B2", "U+00D8", "U+00A8">>, <<"U+00D9", "U+0192", "U+00D8", "U+00B3">>,
    <<"U+00D9", "U+2020", "U+00D9", "U+0160", "U+00D9", "U+0192">>,
    <<"U+00D8", "U+00B4", "U+00D8", "U+00B1", "U+00D9", "U+2026", "U+00D9", "U+02C6", "U+00D8", "U+00B7">>,
    <<"U+00D8", "U+00B9", "U+00D8", "U+00A7", "U+00D9", "U+2021", "U+00D8", "U+00B1", "U+00D8", "U+00A9">>,
    <<"U+00D9", "U+2026", "U+00D9", "U+2020", "U+00D9", "U+0160", "U+00D9", "U+02C6", "U+00D9", "U+0192">>,
    <<"U+00D8", "U+00B7", "U+00D9", "U+0160", "U+00D8", "U+00B2">>,
    <<"U+00D8", "U+00AE", "U+00D8", "U+00B1", "U+00D8", "U+00A7">>,
    <<"U+00D9", "U+201A", "U+00D8", "U+00AD", "U+00D8", "U+00A8", "U+00D8", "U+00A9">>
  }

\* main.py:44
INSULTS_AR ==
  {
    <<"U+00D8", "U+00BA", "U+00D8", "U+00A8", "U+00D9", "U+0160">>,
    <<"U+00D8", "U+00A3", "U+00D8", "U+00AD", "U+00D9", "U+2026", "U+00D9", "U+201A">>,
    <<"U+00D8", "U+00AD", "U+00D9", "U+2026", "U+00D8", "U+00A7", "U+00D8", "U+00B1">>,
    <<"U+00D8", "U+00AA", "U+00D8", "U+00A7", "U+00D9", "U+00D9", "U+2021">>,
    <<"U+00D9", "U+0192", "U+00D9", "U+201E", "U+00D8", "U+00A8">>,
    <<"U+00D8", "U+00AD", "U+00D9", "U+0160", "U+00D9", "U+02C6", "U+00D8", "U+00A7", "U+00D9", "U+2020">>,
    <<"U+00D9", "U+02C6", "U+00D8", "U+00B3", "U+00D8", "U+00AE">>
  }

\* main.py:45
PROFANITY_DARIJA ==
  {
    S("zebi"), S("zeb"), S("kahba"), S("9a7ba"), S("nikomok"), S("lmok"), S("tboun"),
    S("hmar"), S("7mar"), S("mok"), S("sir t9awed")
  }
ALL_PROFANITY ==
  PROFANITY_EN \cup INSULTS_EN \cup PROFANITY_FR \cup INSULTS_FR \cup PROFANITY_AR
    \cup INSULTS_AR \cup PROFANITY_DARIJA

----------------------------------------------------------------------------
(* Python values: what json.loads can return, and the values of a dict *)

\* A value is [t |-> its type, v |-> a string].  For a str, v is the
\* string; for any other type, v is what str() renders it as.
Missing == [t |-> "missing", v |-> <<>>]
None == [t |-> "NoneType", v |-> S("None")]
Str(s) == [t |-> "str", v |-> s]
Num(digits) == [t |-> "int", v |-> S(digits)]
List(rendered) == [t |-> "list", v |-> S(rendered)]
Bool(rendered) == [t |-> "bool", v |-> S(rendered)]

NoKeys == [risk_level |-> Missing, why |-> Missing, rewrite |-> Missing, language |-> Missing]

\* A dict with (some of) the four keys; an absent key holds Missing.
Dict(rl, why, rw, lang) ==
  [t |-> "dict", v |-> <<>>,
   d |-> [risk_level |-> rl, why |-> why, rewrite |-> rw, language |-> lang]]

\* A JSON document that is not an object.
Scalar(val) == [t |-> val.t, v |-> val.v, d |-> NoKeys]

\* The dict of four strings that the pipeline handles once normalised.
Result(rl, why, rw, lang) == Dict(Str(rl), Str(why), Str(rw), Str(lang))

\* Python truthiness (`if x`, `not x`).
Truthy(x) ==
  CASE x.t = "str" -> x.v # <<>>
    [] x.t = "int" -> x.v # S("0")
    [] x.t = "list" -> x.v # S("[]")
    [] x.t = "bool" -> x.v = S("True")
    [] x.t = "dict" -> x.d # NoKeys
    [] OTHER -> FALSE

\* dict.get(key, default) on a dict.
Get(result, key, default) ==
  IF result.d[key].t = "missing" THEN default ELSE result.d[key]

----------------------------------------------------------------------------
(* Validation and sanitisation functions, main.py:115-204 *)

\* main.py:115-126.  The second loop subsumes the first: a blocklisted word
\* found as a token is also found as a substring.
contains_profanity(text) ==
  LET text_lower == Lower(text)
      words == FindWords(text_lower)
  IN  \/ words \cap ALL_PROFANITY # {}
      \/ \E word \in ALL_PROFANITY : Contains(text_lower, word)

RISK_LEVELS == {S("safe"), S("harmful"), S("dangerous")}
LANGUAGES == {S("en"), S("fr"), S("ar"), S("darija")}
TONES == {S("calm"), S("friendly"), S("professional")}
LANG_HINTS == {S("auto")} \cup LANGUAGES

\* A faulty variant of normalize_risk_level that defaults to safe.
normalize_risk_level_permissive(risk) ==
  IF ~Truthy(risk) THEN S("safe")
  ELSE LET risk_clean == Lower(Strip(risk.v))
       IN  IF risk_clean \in RISK_LEVELS THEN risk_clean ELSE S("safe")

\* main.py:129-136
normalize_risk_level(risk) ==
  IF ~Truthy(risk) THEN S("harmful")
  ELSE LET risk_clean == Lower(Strip(risk.v))
       IN  IF risk_clean \in RISK_LEVELS THEN risk_clean ELSE S("harmful")

\* main.py:180-201: the table of generic rewrites, rewrites[lang][tone].
rewrites ==
  S("en") :>
    (S("calm") :>
         (S("I'd like to express my feelings about this calmly."))
    @@ S("friendly") :>
         (S("Hey, I wanted to share my thoughts on this."))
    @@ S("professional") :>
         (S("I would like to address this matter respectfully.")))
  @@
  S("fr") :>
    (S("calm") :>
         (S("J'aimerais exprimer mes sentiments calmement."))
    @@ S("friendly") :>
         (S("Salut, je voulais partager mon avis l") \o <<"U+00C3", "U+00A0">> \o S("-dessus."))
    @@ S("professional") :>
         (S("Je souhaiterais aborder ce sujet avec respect.")))
  @@
  S("ar") :>
    (S("calm") :>
         (<<"U+00D8", "U+00A3", "U+00D9", "U+02C6", "U+00D8", "U+00AF">> \o S(" ") \o <<"U+00D8", "U+00A3", "U+00D9", "U+2020">> \o S(" ") \o <<"U+00D8", "U+00A3", "U+00D8", "U+00B9", "U+00D8", "U+00A8", "U+00D8", "U+00B1">> \o S(" ") \o <<"U+00D8", "U+00B9", "U+00D9", "U+2020">> \o S(" ") \o <<"U+00D9", "U+2026", "U+00D8", "U+00B4", "U+00D8", "U+00A7", "U+00D8", "U+00B9", "U+00D8", "U+00B1", "U+00D9", "U+0160">> \o S(" ") \o <<"U+00D8", "U+00A8", "U+00D9", "U+2021", "U+00D8", "U+00AF", "U+00D9", "U+02C6", "U+00D8", "U+00A1">> \o S("."))
    @@ S("friendly") :>
         (<<"U+00D9", "U+2026", "U+00D8", "U+00B1", "U+00D8", "U+00AD", "U+00D8", "U+00A8", "U+00D8", "U+00A7", "U+00D9", "U+2039", "U+00D8", "U+0152">> \o S(" ") \o <<"U+00D8", "U+00A3", "U+00D8", "U+00B1", "U+00D8", "U+00AF", "U+00D8", "U+00AA">> \o S(" ") \o <<"U+00D9", "U+2026", "U+00D8", "U+00B4", "U+00D8", "U+00A7", "U+00D8", "U+00B1", "U+00D9", "U+0192", "U+00D8", "U+00A9">> \o S(" ") \o <<"U+00D8", "U+00B1", "U+00D8", "U+00A3", "U+00D9", "U+0160", "U+00D9", "U+0160">> \o S(" ") \o <<"U+00D9", "U+00D9", "U+0160">> \o S(" ") \o <<"U+00D9", "U+2021", "U+00D8", "U+00B0", "U+00D8", "U+00A7">> \o S("."))
    @@ S("professional") :>
         (<<"U+00D8", "U+00A3", "U+00D9", "U+02C6", "U+00D8", "U+00AF">> \o S(" ") \o <<"U+00D9", "U+2026", "U+00D8", "U+00B9", "U+00D8", "U+00A7", "U+00D9", "U+201E", "U+00D8", "U+00AC", "U+00D8", "U+00A9">> \o S(" ") \o <<"U+00D9", "U+2021", "U+00D8", "U+00B0", "U+00D8", "U+00A7">> \o S(" ") \o <<"U+00D8", "U+00A7", "U+00D9", "U+201E", "U+00D9", "U+2026", "U+00D9", "U+02C6", "U+00D8", "U+00B6", "U+00D9", "U+02C6", "U+00D8", "U+00B9">> \o S(" ") \o <<"U+00D8", "U+00A8", "U+00D8", "U+00A7", "U+00D8", "U+00AD", "U+00D8", "U+00AA", "U+00D8", "U+00B1", "U+00D8", "U+00A7", "U+00D9", "U+2026">> \o S(".")))
  @@
  S("darija") :>
    (S("calm") :>
         (<<"U+00D8", "U+00A8", "U+00D8", "U+00BA", "U+00D9", "U+0160", "U+00D8", "U+00AA">> \o S(" ") \o <<"U+00D9", "U+2020", "U+00D8", "U+00B9", "U+00D8", "U+00A8", "U+00D8", "U+00B1">> \o S(" ") \o <<"U+00D8", "U+00B9", "U+00D9", "U+201E", "U+00D9", "U+2030">> \o S(" ") \o <<"U+00D8", "U+00B1", "U+00D8", "U+00A3", "U+00D9", "U+0160", "U+00D9", "U+0160">> \o S(" ") \o <<"U+00D8", "U+00A8", "U+00D8", "U+00A7", "U+00D9", "U+201E", "U+00D9", "U+2021", "U+00D8", "U+00AF", "U+00D9", "U+02C6", "U+00D8", "U+00A1">> \o S("."))
    @@ S("friendly") :>
         (<<"U+00D8", "U+00A3", "U+00D9", "U+2021", "U+00D9", "U+201E", "U+00D8", "U+00A7", "U+00D8", "U+0152">> \o S(" ") \o <<"U+00D8", "U+00A8", "U+00D8", "U+00BA", "U+00D9", "U+0160", "U+00D8", "U+00AA">> \o S(" ") \o <<"U+00D9", "U+2020", "U+00D9", "U+201A", "U+00D8", "U+00B3", "U+00D9", "U+2026">> \o S(" ") \o <<"U+00D9", "U+2026", "U+00D8", "U+00B9", "U+00D8", "U+00A7", "U+00D9", "U+0192">> \o S(" ") \o <<"U+00D8", "U+00B4", "U+00D9", "U+2020", "U+00D9", "U+02C6">> \o S(" ") \o <<"U+00D9", "U+0192", "U+00D9", "U+2020", "U+00D9", "U+00D9", "U+0192", "U+00D8", "U+00B1">> \o S("."))
    @@ S("professional") :>
         (<<"U+00D8", "U+00A8", "U+00D8", "U+00BA", "U+00D9", "U+0160", "U+00D8", "U+00AA">> \o S(" ") \o <<"U+00D9", "U+2020", "U+00D8", "U+00AA", "U+00D9", "U+0192", "U+00D9", "U+201E", "U+00D9", "U+2026">> \o S(" ") \o <<"U+00D8", "U+00B9", "U+00D9", "U+201E", "U+00D9", "U+2030">> \o S(" ") \o <<"U+00D9", "U+2021", "U+00D8", "U+00A7", "U+00D8", "U+00AF">> \o S(" ") \o <<"U+00D8", "U+00A7", "U+00D9", "U+201E", "U+00D9", "U+2026", "U+00D9", "U+02C6", "U+00D8", "U+00B6", "U+00D9", "U+02C6", "U+00D8", "U+00B9">> \o S(" ") \o <<"U+00D8", "U+00A8", "U+00D8", "U+00A7", "U+00D9", "U+201E", "U+00D8", "U+00A7", "U+00D8", "U+00AD", "U+00D8", "U+00AA", "U+00D8", "U+00B1", "U+00D8", "U+00A7", "U+00D9", "U+2026">> \o S(".")))
\* main.py:483: the characters of the literal
FRENCH_ACCENTS ==
  <<"U+00C3", "U+00A9", "U+00C3", "U+00A8", "U+00C3", "U+00AA", "U+00C3", "U+00AB", "U+00C3", "U+00A0", "U+00C3", "U+00A2", "U+00C3", "U+00A4", "U+00C3", "U+00B9", "U+00C3", "U+00BB", "U+00C3", "U+00BC", "U+00C3", "U+00B4", "U+00C3", "U+00B6", "U+00C3", "U+00AE", "U+00C3", "U+00AF", "U+00C3", "U+00A7">>

\* main.py:178-204
get_generic_rewrite(tone, lang) ==
  LET lang_key == IF lang \in DOMAIN rewrites THEN lang ELSE S("en")
      tone_key == IF tone \in DOMAIN rewrites[lang_key] THEN tone ELSE S("calm")
  IN  rewrites[lang_key][tone_key]

\* main.py:477
darija_markers == <<S("hna"), S("dyal"), S("wach"), S("kifach"), S("3"), S("7"), S("9")>>

\* A faulty variant of detect_language that never takes the hint.
detect_language_from_text(text, lang_hint) ==
  LET text_lower == Lower(text)
      arabic == \E i \in 1..Len(text) : LET o == Ord(text[i]) IN o > 1536 /\ o < 1791
      darija == \E m \in 1..Len(darija_markers) : Contains(text_lower, darija_markers[m])
      french == \E i \in 1..Len(text_lower) :
                  \E k \in 1..Len(FRENCH_ACCENTS) : text_lower[i] = FRENCH_ACCENTS[k]
  IN  IF arabic THEN (IF darija THEN S("darija") ELSE S("ar"))
      ELSE IF french THEN S("fr")
      ELSE S("en")

\* main.py:469-486
detect_language(text, lang_hint) ==
  IF lang_hint # S("auto") THEN lang_hint
  ELSE
    LET text_lower == Lower(text)
        arabic == \E i \in 1..Len(text) : LET o == Ord(text[i]) IN o > 1536 /\ o < 1791
        darija == \E m \in 1..Len(darija_markers) : Contains(text_lower, darija_markers[m])
        french == \E i \in 1..Len(text_lower) :
                    \E k \in 1..Len(FRENCH_ACCENTS) : text_lower[i] = FRENCH_ACCENTS[k]
    IN  IF arabic THEN (IF darija THEN S("darija") ELSE S("ar"))
        ELSE IF french THEN S("fr")
        ELSE S("en")

\* What a call yields when it raises instead of returning.
Raised == [t |-> "raised", v |-> <<>>, d |-> NoKeys]

\* main.py:150-158: the explanation, or the generic one of the risk level.
why_of(result, risk_level) ==
  LET why == Strip(Get(result, "why", Str(<<>>)).v)
  IN  IF why # <<>> THEN why
      ELSE IF risk_level = S("safe") THEN S("Message appears respectful.")
      ELSE IF risk_level = S("harmful")
        THEN S("Message contains language that could hurt someone.")
      ELSE S("Message contains threatening or dangerous content.")

\* main.py:160-163: the rewrite, or the generic one for (tone, lang).
rewrite_of(result, tone, lang) ==
  LET rewrite == Strip(Get(result, "rewrite", Str(<<>>)).v)
  IN  IF rewrite # <<>> THEN rewrite ELSE get_generic_rewrite(tone, lang)

\* A faulty variant of language_of that trusts the candidate's language.
language_of_unchecked(result, original_text) ==
  Lower(Strip(Get(result, "language", Str(S("en"))).v))

\* main.py:165-168: the language, or the one detected from the text.
language_of(result, original_text) ==
  LET language == Lower(Strip(Get(result, "language", Str(S("en"))).v))
  IN  IF language \in LANGUAGES THEN language
      ELSE detect_language(original_text, S("auto"))

\* main.py:139-175.  result.get exists on a dict only, and .strip() on a
\* str only: on any other type the attribute lookup raises AttributeError.
validate_and_fix_response(result, original_text, tone, lang) ==
  IF result.t # "dict" THEN Raised
  ELSE IF \/ Get(result, "why", Str(<<>>)).t # "str"
          \/ Get(result, "rewrite", Str(<<>>)).t # "str"
          \/ Get(result, "language", Str(S("en"))).t # "str"
    THEN Raised
  ELSE
    LET risk_level == normalize_risk_level(Get(result, "risk_level", None))
    IN  Result(risk_level, why_of(result, risk_level), rewrite_of(result, tone, lang),
               language_of(result, original_text))

\* main.py:424-429
harmful_patterns ==
  [
    en |-> <<S("idiot"), S("stupid"), S("hate"), S("ugly"), S("dumb"), S("shut up"), S("loser")>>,
    fr |-> <<S("idiot"), S("stupide"), S("d") \o <<"U+00C3", "U+00A9">> \o S("teste"), S("nul"), S("tais-toi"), S("con")>>,
    ar |-> <<<<"U+00D8", "U+00BA", "U+00D8", "U+00A8", "U+00D9", "U+0160">>, <<"U+00D8", "U+00A3", "U+00D8", "U+00AD", "U+00D9", "U+2026", "U+00D9", "U+201A">>, <<"U+00D8", "U+00A3", "U+00D9", "U+0192", "U+00D8", "U+00B1", "U+00D9", "U+2021">>, <<"U+00D8", "U+00A7", "U+00D8", "U+00AE", "U+00D8", "U+00B1", "U+00D8", "U+00B3">>>>,
    darija |-> <<S("hmar"), S("7mar"), S("zebi"), S("m3a9")>>
  ]

\* main.py:431-436
dangerous_patterns ==
  [
    en |-> <<S("kill"), S("die"), S("threat"), S("hurt"), S("attack"), S("destroy")>>,
    fr |-> <<S("tuer"), S("mort"), S("menace"), S("blesser"), S("attaquer")>>,
    ar |-> <<<<"U+00D9", "U+201A", "U+00D8", "U+00AA", "U+00D9", "U+201E">>, <<"U+00D9", "U+2026", "U+00D9", "U+02C6", "U+00D8", "U+00AA">>, <<"U+00D8", "U+00AA", "U+00D9", "U+2021", "U+00D8", "U+00AF", "U+00D9", "U+0160", "U+00D8", "U+00AF">>>>,
    darija |-> <<S("n9tel"), S("mout")>>
  ]
\* main.py:441-442, 451-452: some pattern of some language occurs in the text.
AnyPattern(text_lower, patterns) ==
  \E lang \in DOMAIN patterns :
    \E k \in 1..Len(patterns[lang]) : Contains(text_lower, patterns[lang][k])

\* A faulty variant of fallback_mediation that looks at no pattern and
\* answers every text conservatively.
fallback_mediation_conservative(text, tone, lang_hint) ==
  Result(S("harmful"),
         S("Message contains language that could hurt someone."),
         get_generic_rewrite(tone, detect_language(text, lang_hint)),
         detect_language(text, lang_hint))

\* main.py:419-466
fallback_mediation(text, tone, lang_hint) ==
  LET text_lower == Lower(text)
  IN  IF AnyPattern(text_lower, dangerous_patterns)
        THEN Result(S("dangerous"),
                    S("Message contains potentially threatening language."),
                    S("I'm feeling very frustrated and need to express my concerns respectfully."),
                    detect_language(text, lang_hint))
      ELSE IF AnyPattern(text_lower, harmful_patterns)
        THEN Result(S("harmful"),
                    S("Message contains language that could hurt someone."),
                    S("I'd like to express my feelings about this situation."),
                    detect_language(text, lang_hint))
      ELSE Result(S("safe"),
                  S("Message appears respectful and constructive."),
                  text,
                  detect_language(text, lang_hint))

----------------------------------------------------------------------------
(* The external service and the LLM client, main.py:262-416 *)

\* What one strategy of parse_gemini_json gets: the regular expression
\* finds nothing, json.loads raises JSONDecodeError, or json.loads returns
\* a value.
NoMatch == [t |-> "nomatch", v |-> <<>>, d |-> NoKeys]
JSONDecodeError == [t |-> "JSONDecodeError", v |-> <<>>, d |-> NoKeys]

\* The text payload of an answer, by what each strategy makes of it.
Payload(direct, fenced, braces) == [direct |-> direct, fenced |-> fenced, braces |-> braces]
NoPayload == Payload(NoMatch, NoMatch, NoMatch)

\* main.py:389-416
parse_gemini_json(response_text) ==
  IF response_text.direct # JSONDecodeError THEN response_text.direct
  ELSE IF response_text.fenced \notin {NoMatch, JSONDecodeError} THEN response_text.fenced
  ELSE IF response_text.braces \notin {NoMatch, JSONDecodeError} THEN response_text.braces
  ELSE Scalar(None)

\* How an HTTP exchange with the service ends: httpx raises
\* ("timeout", "exception") or a response arrives with a status code and a
\* body.  A body is "malformed" (response.json() or the walk down to the
\* text raises), holds no candidates, holds a candidate without parts, or
\* holds a text.
Timeout == [kind |-> "timeout", status_code |-> 0, body |-> "none", text |-> NoPayload]
TransportError == [kind |-> "exception", status_code |-> 0, body |-> "none", text |-> NoPayload]
Response(status_code, body, text) ==
  [kind |-> "response", status_code |-> status_code, body |-> body, text |-> text]
NoExchange == [kind |-> "none", status_code |-> 0, body |-> "none", text |-> NoPayload]

\* A faulty variant of call_gemini_once that does not look at the status.
call_gemini_once_any_status(exchange) ==
  IF exchange.kind # "response" THEN Scalar(None)
  ELSE IF exchange.body # "text" THEN Scalar(None)
  ELSE parse_gemini_json(exchange.text)

\* main.py:292-331: what _call_gemini_once returns once client.post has
\* ended as `exchange`.
call_gemini_once(exchange) ==
  IF exchange.kind # "response" THEN Scalar(None)
  ELSE IF exchange.status_code # 200 THEN Scalar(None)
  ELSE IF exchange.body # "text" THEN Scalar(None)
  ELSE parse_gemini_json(exchange.text)

\* main.py:360-386: what _call_gemini_strict_retry returns once client.post
\* has ended as `exchange`.
call_gemini_strict_retry(exchange, tone, detected_lang) ==
  LET generic == Result(S("harmful"), S("Contains inappropriate language."),
                        get_generic_rewrite(tone, detected_lang), detected_lang)
      result == parse_gemini_json(exchange.text)
  IN  IF exchange.kind = "response" /\ exchange.status_code = 200
           /\ exchange.body = "text" /\ Truthy(result)
        THEN result
        ELSE generic

----------------------------------------------------------------------------
(* Inputs *)

\* Request texts: polite, insulting (blocklisted and a fallback pattern),
\* profane (blocklisted only), threatening (a fallback pattern only),
\* hostile (a fallback pattern only), blank, and Arabic script.
TEXTS ==
  {S("Thanks for your help!"), S("You are so stupid"), S("Damn it"), S("I will kill you"),
   S("I hate this"), S(" "), <<"U+0633", "U+0644", "U+0627", "U+0645">>}

\* What the service may put under each key of its JSON object.
RISK_VALUES == {Missing, Str(S("safe")), Str(S(" Dangerous "))}
REWRITE_VALUES == {Missing, Str(S("Please stop.")), Str(S(" You idiot"))}
LANGUAGE_VALUES == {Str(S("en")), Str(S(" FR")), Str(S("xx"))}

\* Objects with an explanation, and objects that lack keys or hold values
\* of other types.
CANDIDATES ==
  {Dict(rl, Str(S("Because.")), rw, lang) :
     rl \in RISK_VALUES, rw \in REWRITE_VALUES, lang \in LANGUAGE_VALUES}
    \cup {Dict(Missing, Missing, Missing, Missing),
          Dict(Str(S("safe")), Missing, Str(S("First class")), Missing),
          Dict(Str(S("dangerous")), Str(S(" ")), Str(S("Please stop.")), Missing),
          Dict(Str(S("safe")), None, Str(S("Please stop.")), Str(S("en"))),
          Dict(Str(S("safe")), Str(S("Because.")), Num("5"), Str(S("en"))),
          Dict(List("['safe']"), Str(S("Because.")), Str(S("Please stop.")), None)}

\* JSON documents that are not objects.
NON_OBJECTS ==
  {Scalar(None), Scalar(Num("5")), Scalar(Num("0")), Scalar(List("[1]")), Scalar(List("[]")),
   Scalar(Str(S("safe")))}

----------------------------------------------------------------------------
(* The /mediate pipeline, main.py:210-259 and 581-614 *)

\* The strings the pipeline hands to contains_profanity: the request
\* texts, the rewrites of the candidates, and the literals of main.py.
GUARDED ==
  TEXTS \cup {Strip(t) : t \in TEXTS}
    \cup {Strip(c.d.rewrite.v) : c \in CANDIDATES}
    \cup {rewrites[lang][tone] : lang \in LANGUAGES, tone \in TONES}
    \cup {S("I'm feeling very frustrated and need to express my concerns respectfully."),
          S("I'd like to express my feelings about this situation."),
          S("I'd like to express my thoughts respectfully.")}

\* The members of GUARDED that contains_profanity flags, each scanned once.
FLAGGED == UNION {IF contains_profanity(s) THEN {s} ELSE {} : s \in GUARDED}

\* contains_profanity(text), looked up when text is a member of GUARDED.
Flagged(text) == IF text \in GUARDED THEN text \in FLAGGED ELSE contains_profanity(text)

VARIABLES
  GEMINI_API_KEY,  \* main.py:30: the credential, read once at import
  GEMINI_MODEL,    \* main.py:31: the model identifier, read once at import
  pc,              \* per request: where its coroutine stands
  request,         \* per request: the MediationRequest
  result,          \* per request: the local `result` of call_gemini_mediation
  calls,           \* per request: the external calls issued so far, in order
  exchange,        \* per request: how each external call ended
  response,        \* per request: the MediationResponse returned
  probe            \* the argument and value of a function applied on its own

vars ==
  <<GEMINI_API_KEY, GEMINI_MODEL, pc, request, result, calls, exchange, response, probe>>

\* Requests that can be in progress at once.
MaxRequests == 2
Requests == 1..MaxRequests

MediationRequest(text, tone, lang_hint) == [text |-> text, tone |-> tone, lang_hint |-> lang_hint]
NoRequest == MediationRequest(<<>>, <<>>, <<>>)

MediationResponse(risk_level, why, rewrite, language) ==
  [risk_level |-> risk_level, why |-> why, rewrite |-> rewrite, language |-> language]
NoResponse == MediationResponse(<<>>, <<>>, <<>>, <<>>)

NoResult == Scalar(Missing)
NoExchanges == [main |-> NoExchange, strict |-> NoExchange]
NoProbe == [fn |-> "none", arg |-> NoResult, text |-> <<>>, tone |-> <<>>, lang |-> <<>>,
            out |-> NoResult]

\* main.py:599-604: the response built from a normalised result.
ResponseOf(res) ==
  MediationResponse(res.d.risk_level.v, res.d.why.v, res.d.rewrite.v, res.d.language.v)

\* main.py:606-614: the response of the except branch of mediate_message.
ExceptResponse ==
  MediationResponse(S("harmful"), S("Unable to process message."),
                    S("I'd like to express my thoughts respectfully."), S("en"))

\* A faulty variant of ForceGeneric that leaves the risk_level alone.
ForceGeneric_keeps_risk(res, tone) ==
  [res EXCEPT !.d.rewrite = Str(get_generic_rewrite(tone, res.d.language.v))]

\* A faulty variant of ForceGeneric that takes the English template.
ForceGeneric_english(res, tone) ==
  [res EXCEPT !.d.rewrite = Str(get_generic_rewrite(tone, S("en"))),
              !.d.risk_level = Str(S("harmful"))]

\* main.py:245-249: the regenerated rewrite is still flagged.
ForceGeneric(res, tone) ==
  [res EXCEPT !.d.rewrite = Str(get_generic_rewrite(tone, res.d.language.v)),
              !.d.risk_level = Str(S("harmful"))]

\* A faulty variant of FinalCheck that asks the guard about the rewrite
\* instead of the text.
FinalCheck_on_rewrite(res, text) ==
  IF res.d.risk_level.v = S("safe") /\ Flagged(res.d.rewrite.v)
    THEN [res EXCEPT !.d.risk_level = Str(S("harmful")),
                     !.d.why = Str(S("Message contains inappropriate language."))]
    ELSE res

\* A faulty variant of FinalCheck that lets the result through.
FinalCheck_off(res, text) == res

\* main.py:251-255
FinalCheck(res, text) ==
  IF res.d.risk_level.v = S("safe") /\ Flagged(text)
    THEN [res EXCEPT !.d.risk_level = Str(S("harmful")),
                     !.d.why = Str(S("Message contains inappropriate language."))]
    ELSE res

\* main.py:210-259: the value call_gemini_mediation returns, or Raised, when
\* its external calls end as exs.main and exs.strict.
call_gemini_mediation(text, tone, lang_hint, exs) ==
  IF GEMINI_API_KEY = <<>>
    THEN validate_and_fix_response(fallback_mediation(text, tone, lang_hint),
                                   text, tone, lang_hint)
  ELSE
    LET once == call_gemini_once(exs.main)
        first == validate_and_fix_response(
                   IF once = Scalar(None) THEN fallback_mediation(text, tone, lang_hint)
                   ELSE once,
                   text, tone, lang_hint)
    IN  IF first = Raised THEN Raised
        ELSE IF ~Flagged(first.d.rewrite.v) THEN FinalCheck(first, text)
        ELSE
          LET second == validate_and_fix_response(
                          call_gemini_strict_retry(exs.strict, tone, first.d.language.v),
                          text, tone, lang_hint)
          IN  IF second = Raised THEN Raised
              ELSE IF Flagged(second.d.rewrite.v)
                THEN FinalCheck(ForceGeneric(second, tone), text)
              ELSE FinalCheck(second, text)

\* main.py:581-614: the response of mediate_message to a request handled
\* with no other request in progress.
mediate_message(req, exs) ==
  LET res == call_gemini_mediation(req.text, req.tone, req.lang_hint, exs)
  IN  IF res = Raised THEN ExceptResponse ELSE ResponseOf(res)

\* A faulty variant of Return that keeps `result` in one place for all
\* requests.
Return_shared(r, res) ==
  /\ pc' = [pc EXCEPT ![r] = "done"]
  /\ result' = [q \in Requests |-> res]
  /\ response' = [response EXCEPT ![r] = IF res = Raised THEN ExceptResponse
                                         ELSE ResponseOf(res)]

\* A request r ends: its coroutine returns `res`, or raised on the way and
\* mediate_message answers from its except branch.
Return(r, res) ==
  /\ pc' = [pc EXCEPT ![r] = "done"]
  /\ result' = [result EXCEPT ![r] = res]
  /\ response' = [response EXCEPT ![r] = IF res = Raised THEN ExceptResponse
                                         ELSE ResponseOf(res)]

\* A faulty variant of Mediate that issues the main call without looking
\* at the credential.
Mediate_always_calls(r, text, tone, lang_hint) ==
  /\ pc[r] = "idle"
  /\ request' = [request EXCEPT ![r] = MediationRequest(text, tone, lang_hint)]
  /\ pc' = [pc EXCEPT ![r] = "main"]
  /\ calls' = [calls EXCEPT ![r] = Append(@, "main")]
  /\ UNCHANGED <<result, response>>
  /\ UNCHANGED <<GEMINI_API_KEY, GEMINI_MODEL, exchange, probe>>

\* main.py:581-597, 222-232: a request arrives.  Without a credential it is
\* answered at once from fallback_mediation; with one, the main call is
\* issued and the coroutine waits for it.
Mediate(r, text, tone, lang_hint) ==
  /\ pc[r] = "idle"
  /\ request' = [request EXCEPT ![r] = MediationRequest(text, tone, lang_hint)]
  /\ IF GEMINI_API_KEY = <<>>
       THEN /\ Return(r, validate_and_fix_response(
                           fallback_mediation(text, tone, lang_hint), text, tone, lang_hint))
            /\ UNCHANGED calls
       ELSE /\ pc' = [pc EXCEPT ![r] = "main"]
            /\ calls' = [calls EXCEPT ![r] = Append(@, "main")]
            /\ UNCHANGED <<result, response>>
  /\ UNCHANGED <<GEMINI_API_KEY, GEMINI_MODEL, exchange, probe>>

\* A faulty variant of MainCallEnds that issues the strict retry whatever
\* the guard says about the provisional rewrite.
MainCallEnds_always_retries(r, ex) ==
  /\ pc[r] = "main"
  /\ exchange' = [exchange EXCEPT ![r].main = ex]
  /\ LET text == request[r].text
         tone == request[r].tone
         lang_hint == request[r].lang_hint
         once == call_gemini_once(ex)
         candidate == IF once = Scalar(None)
                        THEN fallback_mediation(text, tone, lang_hint)
                        ELSE once
         res == validate_and_fix_response(candidate, text, tone, lang_hint)
     IN  IF res = Raised
           THEN Return(r, Raised) /\ UNCHANGED calls
         ELSE /\ pc' = [pc EXCEPT ![r] = "strict"]
              /\ result' = [result EXCEPT ![r] = res]
              /\ calls' = [calls EXCEPT ![r] = Append(@, "strict")]
              /\ UNCHANGED response
  /\ UNCHANGED <<GEMINI_API_KEY, GEMINI_MODEL, request, probe>>

\* main.py:232-259 up to the strict retry: the main call ends as `ex`.
MainCallEnds(r, ex) ==
  /\ pc[r] = "main"
  /\ exchange' = [exchange EXCEPT ![r].main = ex]
  /\ LET text == request[r].text
         tone == request[r].tone
         lang_hint == request[r].lang_hint
         once == call_gemini_once(ex)
         candidate == IF once = Scalar(None)
                        THEN fallback_mediation(text, tone, lang_hint)
                        ELSE once
         res == validate_and_fix_response(candidate, text, tone, lang_hint)
     IN  IF res = Raised
           THEN Return(r, Raised) /\ UNCHANGED calls
         ELSE IF Flagged(res.d.rewrite.v)
           THEN /\ pc' = [pc EXCEPT ![r] = "strict"]
                /\ result' = [result EXCEPT ![r] = res]
                /\ calls' = [calls EXCEPT ![r] = Append(@, "strict")]
                /\ UNCHANGED response
         ELSE Return(r, FinalCheck(res, text)) /\ UNCHANGED calls
  /\ UNCHANGED <<GEMINI_API_KEY, GEMINI_MODEL, request, probe>>

\* A faulty variant of StrictRetryEnds that regenerates again while the
\* rewrite is flagged.
StrictRetryEnds_again(r, ex) ==
  /\ pc[r] = "strict"
  /\ exchange' = [exchange EXCEPT ![r].strict = ex]
  /\ LET text == request[r].text
         tone == request[r].tone
         lang_hint == request[r].lang_hint
         candidate == call_gemini_strict_retry(ex, tone, result[r].d.language.v)
         res == validate_and_fix_response(candidate, text, tone, lang_hint)
     IN  IF res = Raised
           THEN Return(r, Raised) /\ UNCHANGED calls
         ELSE IF Flagged(res.d.rewrite.v)
           THEN /\ result' = [result EXCEPT ![r] = res]
                /\ calls' = [calls EXCEPT ![r] = Append(@, "strict")]
                /\ UNCHANGED <<pc, response>>
         ELSE Return(r, FinalCheck(res, text)) /\ UNCHANGED calls
  /\ UNCHANGED <<GEMINI_API_KEY, GEMINI_MODEL, request, probe>>

\* main.py:242-259: the strict retry ends as `ex`.
StrictRetryEnds(r, ex) ==
  /\ pc[r] = "strict"
  /\ exchange' = [exchange EXCEPT ![r].strict = ex]
  /\ LET text == request[r].text
         tone == request[r].tone
         lang_hint == request[r].lang_hint
         candidate == call_gemini_strict_retry(ex, tone, result[r].d.language.v)
         res == validate_and_fix_response(candidate, text, tone, lang_hint)
     IN  IF res = Raised
           THEN Return(r, Raised)
         ELSE IF Flagged(res.d.rewrite.v)
           THEN Return(r, FinalCheck(ForceGeneric(res, tone), text))
         ELSE Return(r, FinalCheck(res, text))
  /\ UNCHANGED <<GEMINI_API_KEY, GEMINI_MODEL, request, calls, probe>>

----------------------------------------------------------------------------
(* The behaviours of the external service *)

\* Text payloads: a JSON document as it stands, one inside a code fence,
\* one inside surrounding prose, and text holding no JSON at all.
PAYLOADS ==
  {Payload(j, NoMatch, NoMatch) : j \in CANDIDATES \cup NON_OBJECTS}
    \cup {Payload(JSONDecodeError, j, NoMatch) :
            j \in {Dict(Str(S("safe")), Str(S("Because.")), Str(S("Please stop.")), Str(S("en"))),
                   Scalar(List("[1]")), JSONDecodeError}}
    \cup {Payload(JSONDecodeError, NoMatch, j) :
            j \in {Dict(Str(S("safe")), Str(S("Because.")), Str(S("You idiot")), Str(S("en"))),
                   JSONDecodeError}}
    \cup {Payload(JSONDecodeError, NoMatch, NoMatch)}

\* The ways an external call can end.
EXCHANGES ==
  {Timeout, TransportError, Response(429, "none", NoPayload), Response(500, "none", NoPayload),
   Response(429, "text",
            Payload(Dict(Str(S("safe")), Str(S("Because.")), Str(S("Please stop.")), Str(S("en"))),
                    NoMatch, NoMatch)),
   Response(200, "malformed", NoPayload), Response(200, "nocandidates", NoPayload),
   Response(200, "noparts", NoPayload)}
    \cup {Response(200, "text", p) : p \in PAYLOADS}

----------------------------------------------------------------------------
(* Specification *)

Init ==
  /\ GEMINI_API_KEY \in {<<>>, S("key")}
  /\ GEMINI_MODEL = S("gemini-2.0-flash")
  /\ pc = [r \in Requests |-> "idle"]
  /\ request = [r \in Requests |-> NoRequest]
  /\ result = [r \in Requests |-> NoResult]
  /\ calls = [r \in Requests |-> <<>>]
  /\ exchange = [r \in Requests |-> NoExchanges]
  /\ response = [r \in Requests |-> NoResponse]
  /\ probe = NoProbe

\* One request, every input and every behaviour of the service.
Next ==
  \/ \E text \in TEXTS, tone \in TONES, lang_hint \in LANG_HINTS :
       Mediate(1, text, tone, lang_hint)
  \/ \E ex \in EXCHANGES : MainCallEnds(1, ex)
  \/ \E ex \in EXCHANGES : StrictRetryEnds(1, ex)

Spec == Init /\ [][Next]_vars

----------------------------------------------------------------------------
(* Concurrent requests *)

\* Inputs of the requests that run concurrently.
CONC_TEXTS == {S("Thanks for your help!"), S("Damn it")}
CONC_TONES == {S("calm")}
CONC_LANG_HINTS == {S("auto"), S("fr")}
CONC_EXCHANGES ==
  {Timeout,
   Response(200, "text",
            Payload(Dict(Str(S("safe")), Str(S("Because.")), Str(S(" You idiot")), Str(S(" FR"))),
                    NoMatch, NoMatch)),
   Response(200, "text",
            Payload(Dict(Str(S("safe")), Str(S("Because.")), Str(S("Please stop.")), Str(S("en"))),
                    NoMatch, NoMatch))}

\* Requests are served by coroutines of one event loop: a step is the code
\* one coroutine runs between two of its await points.
NextConc ==
  \E r \in Requests :
    \/ \E text \in CONC_TEXTS, tone \in CONC_TONES, lang_hint \in CONC_LANG_HINTS :
         Mediate(r, text, tone, lang_hint)
    \/ \E ex \in CONC_EXCHANGES : MainCallEnds(r, ex)
    \/ \E ex \in CONC_EXCHANGES : StrictRetryEnds(r, ex)

SpecConc == Init /\ [][NextConc]_vars

----------------------------------------------------------------------------
(* validate_and_fix_response applied on its own *)

\* Values of every JSON type under each key, absent keys, empty and blank
\* strings, and strings outside the enumerations.
RAW_RISK_VALUES ==
  {Missing, None, Str(<<>>), Str(S(" SAFE ")), Str(S("dangerous")), Str(S("bogus")), Num("5"),
   List("['safe']")}
RAW_WHY_VALUES == {Missing, None, Str(<<>>), Str(S(" ")), Str(S(" Because. ")), Num("5")}
RAW_REWRITE_VALUES == {Missing, None, Str(<<>>), Str(S(" ")), Str(S("Please stop.")), List("[]")}
RAW_LANGUAGE_VALUES ==
  {Missing, None, Str(<<>>), Str(S(" AR ")), Str(S("auto")), Str(S("english")), Num("0")}

RAW_CANDIDATES ==
  {Dict(rl, why, rw, lang) :
     rl \in RAW_RISK_VALUES, why \in RAW_WHY_VALUES, rw \in RAW_REWRITE_VALUES,
     lang \in RAW_LANGUAGE_VALUES}

NORM_TEXTS == {S("Thanks for your help!"), <<"U+0633", "U+0644", "U+0627", "U+0645">>}
NORM_TONES == {S("calm"), S("professional")}
NORM_LANGS == {S("auto"), S("fr"), S("darija")}

Probe(fn, arg, text, tone, lang, out) ==
  [fn |-> fn, arg |-> arg, text |-> text, tone |-> tone, lang |-> lang, out |-> out]

\* A call of a function, its value not yet computed.
Pending == [t |-> "pending", v |-> <<>>, d |-> NoKeys]

InitNorm ==
  /\ GEMINI_API_KEY = <<>>
  /\ GEMINI_MODEL = S("gemini-2.0-flash")
  /\ pc = [r \in Requests |-> "idle"]
  /\ request = [r \in Requests |-> NoRequest]
  /\ result = [r \in Requests |-> NoResult]
  /\ calls = [r \in Requests |-> <<>>]
  /\ exchange = [r \in Requests |-> NoExchanges]
  /\ response = [r \in Requests |-> NoResponse]
  /\ \E raw \in RAW_CANDIDATES, text \in NORM_TEXTS, tone \in NORM_TONES, lang \in NORM_LANGS :
       probe = Probe("validate_and_fix_response", raw, text, tone, lang, Pending)

\* main.py:139-175: the call returns or raises.
Validate ==
  /\ probe.fn = "validate_and_fix_response"
  /\ probe.out = Pending
  /\ probe' = [probe EXCEPT !.out = validate_and_fix_response(probe.arg, probe.text,
                                                              probe.tone, probe.lang)]
  /\ UNCHANGED <<GEMINI_API_KEY, GEMINI_MODEL, pc, request, result, calls, exchange, response>>

NextNorm == Validate

SpecNorm == InitNorm /\ [][NextNorm]_vars

----------------------------------------------------------------------------
(* detect_language applied on its own *)

\* Texts in Latin script without and with accents, in Arabic script
\* without and with Darija markers, in both scripts, and with characters
\* at the ends of the Arabic block.
DETECT_TEXTS ==
  {S("Thanks for your help!"), S("I hate this"), S("wach a sahbi"),
   S("caf") \o <<"U+00E9">>, S("CAF") \o <<"U+00C9">>, S("(c) ") \o <<"U+00A9">>,
   <<"U+0633", "U+0644", "U+0627", "U+0645">>,
   <<"U+0633", "U+0644", "U+0627", "U+0645">> \o S(" wach"),
   <<"U+0633", "U+0644", "U+0627", "U+0645">> \o S(" 3"),
   <<"U+0633", "U+0644", "U+0627", "U+0645">> \o S(" ") \o <<"U+00E9">>,
   <<"U+0600">>, <<"U+06FF">>}

InitDetect ==
  /\ GEMINI_API_KEY = <<>>
  /\ GEMINI_MODEL = S("gemini-2.0-flash")
  /\ pc = [r \in Requests |-> "idle"]
  /\ request = [r \in Requests |-> NoRequest]
  /\ result = [r \in Requests |-> NoResult]
  /\ calls = [r \in Requests |-> <<>>]
  /\ exchange = [r \in Requests |-> NoExchanges]
  /\ response = [r \in Requests |-> NoResponse]
  /\ \E text \in DETECT_TEXTS, lang_hint \in LANG_HINTS :
       probe = Probe("detect_language", NoResult, text, <<>>, lang_hint, Pending)

\* main.py:469-486: the call returns.
Detect ==
  /\ probe.fn = "detect_language"
  /\ probe.out = Pending
  /\ probe' = [probe EXCEPT !.out = Scalar(Str(detect_language(probe.text, probe.lang)))]
  /\ UNCHANGED <<GEMINI_API_KEY, GEMINI_MODEL, pc, request, result, calls, exchange, response>>

NextDetect == Detect

SpecDetect == InitDetect /\ [][NextDetect]_vars

----------------------------------------------------------------------------
(* Properties *)

Done(r) == pc[r] = "done"

\* The request r was answered from the except branch of mediate_message.
Excepted(r) == Done(r) /\ result[r] = Raised

\* The main call of r has ended and yielded no candidate.
MainYieldedNone(r) ==
  /\ pc[r] \in {"strict", "done"}
  /\ calls[r] # <<>>
  /\ \/ exchange[r].main.kind \in {"timeout", "exception"}
     \/ exchange[r].main.status_code # 200
     \/ exchange[r].main.body # "text"
     \/ parse_gemini_json(exchange[r].main.text) = Scalar(None)

\* The strict retry of r has ended.
Regenerated(r) == Done(r) /\ calls[r] = <<"main", "strict">>

\* The patterns of fallback_mediation that occur in a text.
Threatening(text) == AnyPattern(Lower(text), dangerous_patterns)
Hostile(text) == AnyPattern(Lower(text), harmful_patterns)

\* C1: the rewrite of every response is one the Lexical Guard does not
\* flag, with or without a credential and whatever the service does.
C1_RewriteGuardClean ==
  \A r \in Requests : Done(r) => ~Flagged(response[r].rewrite)

\* C2: every request that ends is answered with a risk_level among safe,
\* harmful and dangerous, a non-empty why, a non-empty rewrite and a
\* language among en, fr, ar and darija, whatever the service did and also
\* when the pipeline raised.
C2_ResponseWellFormed ==
  \A r \in Requests :
    Done(r) =>
      /\ response[r].risk_level \in RISK_LEVELS
      /\ response[r].why # <<>>
      /\ response[r].rewrite # <<>>
      /\ response[r].language \in LANGUAGES
      /\ response[r].language # S("auto")

\* C2 witness: a request whose pipeline raised is answered all the same.
C2_Witness ==
  \E r \in Requests :
    /\ Excepted(r)
    /\ exchange[r].main.kind = "response"
    /\ response[r].language \in LANGUAGES

\* What fallback_mediation makes of a text, read off the pattern lists.
HeuristicRisk(text) ==
  IF Threatening(text) THEN S("dangerous")
  ELSE IF Hostile(text) THEN S("harmful")
  ELSE S("safe")

\* The rewrite that goes with it once normalized: a fixed English sentence
\* when a pattern occurs, else the trimmed text, and for a blank text the
\* generic template of the tone and the language hint.
HeuristicRewrite(text, tone, lang_hint) ==
  IF Threatening(text)
    THEN S("I'm feeling very frustrated and need to express my concerns respectfully.")
  ELSE IF Hostile(text) THEN S("I'd like to express my feelings about this situation.")
  ELSE IF Strip(text) # <<>> THEN Strip(text)
  ELSE get_generic_rewrite(tone, lang_hint)

\* C3 as stated: without a credential every request is answered harmful,
\* with the generic template of its tone and language as the rewrite, and
\* no call to the external service.
C3_NoCredentialConservative ==
  \A r \in Requests :
    (GEMINI_API_KEY = <<>> /\ Done(r)) =>
      /\ response[r].risk_level = S("harmful")
      /\ response[r].rewrite # <<>>
      /\ response[r].rewrite =
           get_generic_rewrite(request[r].tone,
                               detect_language(request[r].text, request[r].lang_hint))
      /\ calls[r] = <<>>

\* C3: without a credential a request is answered with no call to the
\* external service and a non-empty rewrite; the risk_level is dangerous,
\* harmful or safe according to the pattern lists of fallback_mediation,
\* and the rewrite is the fixed sentence of that level, or for a text
\* without pattern the trimmed text itself (the generic template only when
\* the text is blank).
C3_NoCredentialHeuristic ==
  \A r \in Requests :
    (GEMINI_API_KEY = <<>> /\ Done(r)) =>
      /\ calls[r] = <<>>
      /\ exchange[r] = NoExchanges
      /\ response[r].rewrite # <<>>
      /\ response[r].risk_level = HeuristicRisk(request[r].text)
      /\ response[r].rewrite =
           HeuristicRewrite(request[r].text, request[r].tone, request[r].lang_hint)

\* C3 witness: without a credential a polite text is answered safe, with
\* the text itself as the rewrite.
C3_Witness ==
  \E r \in Requests :
    /\ GEMINI_API_KEY = <<>>
    /\ Done(r)
    /\ response[r].risk_level = S("safe")
    /\ response[r].rewrite = request[r].text
    /\ response[r].rewrite = S("Thanks for your help!")

\* The candidate the service gave to the main call of r, None if none.
MainCandidate(r) ==
  IF /\ exchange[r].main.kind = "response"
     /\ exchange[r].main.status_code = 200
     /\ exchange[r].main.body = "text"
    THEN parse_gemini_json(exchange[r].main.text)
    ELSE Scalar(None)

\* The candidate the service gave to the strict retry of r and that the
\* client kept, None if none.
StrictCandidate(r) ==
  IF /\ Regenerated(r)
     /\ exchange[r].strict.kind = "response"
     /\ exchange[r].strict.status_code = 200
     /\ exchange[r].strict.body = "text"
     /\ Truthy(parse_gemini_json(exchange[r].strict.text))
    THEN parse_gemini_json(exchange[r].strict.text)
    ELSE Scalar(None)

\* The last candidate of the service that the answer to r was made from.
ServiceCandidate(r) ==
  IF StrictCandidate(r) # Scalar(None) THEN StrictCandidate(r) ELSE MainCandidate(r)

\* The language a candidate declares, trimmed and in lower case.
Declared(candidate) == Lower(Strip(Get(candidate, "language", Str(S("en"))).v))

\* C4 as stated: a request whose lang_hint is not auto is answered in the
\* language lang_hint, whatever the candidates of the service say.
C4_LanguageIsHint ==
  \A r \in Requests :
    (Done(r) /\ request[r].lang_hint # S("auto")) =>
      response[r].language = request[r].lang_hint

\* C4: for a request whose lang_hint is not auto, the language of the
\* answer is lang_hint when no candidate of the service was used; when one
\* was used it is the language that candidate declares if that is one of
\* en, fr, ar, darija, and else the language detected from the text alone;
\* the answer of the except branch is in en.
C4_LanguageOfCandidate ==
  \A r \in Requests :
    (Done(r) /\ request[r].lang_hint # S("auto")) =>
      IF Excepted(r) THEN response[r].language = S("en")
      ELSE IF ServiceCandidate(r) = Scalar(None)
        THEN response[r].language = request[r].lang_hint
      ELSE IF Declared(ServiceCandidate(r)) \in LANGUAGES
        THEN response[r].language = Declared(ServiceCandidate(r))
      ELSE response[r].language = detect_language(request[r].text, S("auto"))

\* C4 witness: a request with a hint is answered in the other language its
\* candidate declares.
C4_Witness ==
  \E r \in Requests :
    /\ Done(r)
    /\ ~Excepted(r)
    /\ request[r].lang_hint = S("ar")
    /\ MainCandidate(r) # Scalar(None)
    /\ Declared(ServiceCandidate(r)) = S("fr")
    /\ response[r].language = S("fr")

\* C5 as stated: validate_and_fix_response never raises and returns a
\* result with all four fields valid, whatever the types of the values of
\* the candidate.
C5_NormalizerTotal ==
  (probe.fn = "validate_and_fix_response" /\ probe.out # Pending) =>
    /\ probe.out # Raised
    /\ probe.out.d.risk_level.v \in RISK_LEVELS
    /\ probe.out.d.why.v # <<>>
    /\ probe.out.d.rewrite.v # <<>>
    /\ probe.out.d.language.v \in LANGUAGES

\* The normalized risk_level of the last candidate produced for r: the
\* regenerated one if a regeneration happened, else the main one, the
\* candidate being the one of the program where the service gave none.
LastRisk(r) ==
  IF Regenerated(r)
    THEN IF StrictCandidate(r) # Scalar(None)
           THEN normalize_risk_level(Get(StrictCandidate(r), "risk_level", None))
           ELSE S("harmful")
  ELSE IF MainCandidate(r) # Scalar(None)
    THEN normalize_risk_level(Get(MainCandidate(r), "risk_level", None))
  ELSE HeuristicRisk(request[r].text)

\* The Lexical Guard flags the rewrite of the regenerated candidate of r.
StillFlagged(r) ==
  /\ StrictCandidate(r) # Scalar(None)
  /\ Flagged(Strip(Get(StrictCandidate(r), "rewrite", Str(<<>>)).v))

\* C6 as stated: the risk_level of an answer is the normalized risk_level
\* of the last candidate produced, whatever the Lexical Guard says about
\* the text or about a rewrite.
C6_GuardNeverDecidesRisk ==
  \A r \in Requests :
    (Done(r) /\ ~Excepted(r)) => response[r].risk_level = LastRisk(r)

\* C6: the risk_level of an answer is the normalized risk_level of the
\* last candidate produced, except that the Lexical Guard turns it into
\* harmful in two cases: the rewrite of a regenerated candidate is still
\* flagged, or, with a credential configured, the risk_level is safe and
\* the guard flags the text of the request.
C6_GuardOverridesRisk ==
  \A r \in Requests :
    (Done(r) /\ ~Excepted(r)) =>
      response[r].risk_level =
        IF StillFlagged(r) THEN S("harmful")
        ELSE IF GEMINI_API_KEY # <<>> /\ LastRisk(r) = S("safe") /\ Flagged(request[r].text)
          THEN S("harmful")
        ELSE LastRisk(r)

\* C6 witness: a candidate classified safe with a rewrite the guard does
\* not flag is answered harmful because the guard flags the text.
C6_Witness ==
  \E r \in Requests :
    /\ Done(r)
    /\ calls[r] = <<"main">>
    /\ MainCandidate(r) # Scalar(None)
    /\ LastRisk(r) = S("safe")
    /\ ~Flagged(response[r].rewrite)
    /\ Flagged(request[r].text)
    /\ response[r].risk_level = S("harmful")

\* The main call of r has ended and the service answered it with HTTP 429.
RateLimited(r) ==
  /\ pc[r] \in {"strict", "done"}
  /\ exchange[r].main.kind = "response"
  /\ exchange[r].main.status_code = 429

\* The number of HTTP requests the main call site of r has posted.
MainAttempts(r) == Cardinality({i \in DOMAIN calls[r] : calls[r][i] = "main"})

\* C7 as stated: a main call answered with HTTP 429 is attempted exactly
\* three times before the client yields no candidate.
C7_RateLimitThreeAttempts ==
  \A r \in Requests : RateLimited(r) => MainAttempts(r) = 3

\* C7: a main call answered with HTTP 429 is attempted exactly once, with
\* no retry; the client yields no candidate, whatever the body of the
\* answer, and the orchestrator normalizes the candidate of
\* fallback_mediation in its place without raising.
C7_RateLimitSingleAttempt ==
  \A r \in Requests :
    RateLimited(r) =>
      /\ MainAttempts(r) = 1
      /\ (pc[r] = "strict" \/ calls[r] = <<"main">>) =>
           /\ result[r] # Raised
           /\ result[r].d.risk_level.v = HeuristicRisk(request[r].text)
           /\ result[r].d.rewrite.v =
                HeuristicRewrite(request[r].text, request[r].tone, request[r].lang_hint)

\* C7 witness: an HTTP 429 answer that carries a candidate, and the
\* request is answered from fallback_mediation.
C7_Witness ==
  \E r \in Requests :
    /\ Done(r)
    /\ RateLimited(r)
    /\ exchange[r].main.body = "text"
    /\ calls[r] = <<"main">>
    /\ response[r].why = S("Message appears respectful and constructive.")

\* C8: a request issues at most one main call and then at most one strict
\* retry, in this order; it waits for a call only right after issuing it,
\* and after the strict retry has ended it issues no call.
C8_BoundedCalls ==
  \A r \in Requests :
    /\ calls[r] \in {<<>>, <<"main">>, <<"main", "strict">>}
    /\ pc[r] = "idle" => calls[r] = <<>>
    /\ pc[r] = "main" => calls[r] = <<"main">>
    /\ pc[r] = "strict" => calls[r] = <<"main", "strict">>

\* C8 witness: the regenerated candidate still has a flagged rewrite, and
\* the request has ended after its two calls.
C8_Witness ==
  \E r \in Requests :
    /\ Regenerated(r)
    /\ StillFlagged(r)
    /\ response[r].rewrite = get_generic_rewrite(request[r].tone, response[r].language)

\* A step that leaves the configuration alone, touches the data of one
\* request at most, and in which a request that ends is answered as
\* mediate_message answers it on its own for the same answers of the
\* service.
IsolatedStep ==
  /\ GEMINI_API_KEY' = GEMINI_API_KEY
  /\ GEMINI_MODEL' = GEMINI_MODEL
  /\ \E r \in Requests :
       \A q \in Requests \ {r} :
         /\ pc'[q] = pc[q]
         /\ request'[q] = request[q]
         /\ result'[q] = result[q]
         /\ calls'[q] = calls[q]
         /\ exchange'[q] = exchange[q]
         /\ response'[q] = response[q]
  /\ \A r \in Requests :
       (pc[r] # "done" /\ pc'[r] = "done") =>
         response'[r] = mediate_message(request'[r], exchange'[r])

\* C9: requests interleaved at their await points are isolated: every
\* step is an IsolatedStep.
C9_Isolation == [][IsolatedStep]_vars

\* C9 witness: two requests suspended at once, one in its strict retry and
\* one in its main call.
C9_Witness ==
  /\ pc[1] = "strict"
  /\ pc[2] = "main"
  /\ request[1] # request[2]

\* The main call of r yielded no candidate, and `result` of r holds what
\* was normalized in its place.
Substituted(r) ==
  /\ GEMINI_API_KEY # <<>>
  /\ MainYieldedNone(r)
  /\ pc[r] = "strict" \/ calls[r] = <<"main">>

\* C10 as stated: when the main call yields no candidate, what is
\* normalized in its place is harmful with the generic template of the
\* tone and the detected language as its rewrite, whatever the text.
C10_NullMainConservative ==
  \A r \in Requests :
    Substituted(r) =>
      /\ result[r].d.risk_level.v = S("harmful")
      /\ result[r].d.rewrite.v =
           get_generic_rewrite(request[r].tone,
                               detect_language(request[r].text, request[r].lang_hint))

\* C10: when the main call yields no candidate, what is normalized in its
\* place is the candidate of fallback_mediation, which depends on the
\* text: dangerous, harmful or safe by the pattern lists, with the fixed
\* sentence of the level as its rewrite, or the text itself when no
\* pattern occurs.
C10_NullMainHeuristic ==
  \A r \in Requests :
    Substituted(r) =>
      /\ result[r].d.risk_level.v = HeuristicRisk(request[r].text)
      /\ result[r].d.rewrite.v =
           HeuristicRewrite(request[r].text, request[r].tone, request[r].lang_hint)

\* C10 witness: the main call times out and a polite text is answered
\* safe with the text itself as the rewrite.
C10_Witness ==
  \E r \in Requests :
    /\ Done(r)
    /\ GEMINI_API_KEY # <<>>
    /\ exchange[r].main = Timeout
    /\ response[r].risk_level = S("safe")
    /\ response[r].rewrite = request[r].text

\* The generic rewrite override fired for r: its regenerated rewrite was
\* still flagged, and r was answered.
Overridden(r) == Done(r) /\ ~Excepted(r) /\ StillFlagged(r)

\* The language of the regenerated candidate of r once normalized.
RegeneratedLanguage(r) ==
  IF Declared(StrictCandidate(r)) \in LANGUAGES THEN Declared(StrictCandidate(r))
  ELSE detect_language(request[r].text, S("auto"))

\* C11 as stated: when the regenerated rewrite is still flagged, the
\* rewrite returned is the generic template of the tone and of the language
\* resolved from the request, detect_language(text, lang_hint), not of a
\* language a candidate declares.
C11_OverrideUsesRequestLanguage ==
  \A r \in Requests :
    Overridden(r) =>
      response[r].rewrite =
        get_generic_rewrite(request[r].tone,
                            detect_language(request[r].text, request[r].lang_hint))

\* C11: when the regenerated rewrite is still flagged, the rewrite
\* returned is the generic template of the tone and of the language of the
\* normalized regenerated candidate: the language that candidate declares
\* if it is one of en, fr, ar, darija, else the language detected from the
\* text alone; the answer carries that rewrite and that language.
C11_OverrideUsesCandidateLanguage ==
  \A r \in Requests :
    Overridden(r) =>
      /\ response[r].rewrite = get_generic_rewrite(request[r].tone, RegeneratedLanguage(r))
      /\ response[r].language = RegeneratedLanguage(r)

\* C11 witness: a request with the hint ar whose regenerated candidate
\* declares fr and is still flagged is answered with the French template.
C11_Witness ==
  \E r \in Requests :
    /\ Overridden(r)
    /\ request[r].lang_hint = S("ar")
    /\ RegeneratedLanguage(r) = S("fr")
    /\ response[r].rewrite = rewrites[S("fr")][request[r].tone]

\* The main candidate of r was normalized and answered, and its rewrite
\* was missing or empty once trimmed.
EmptyRewrite(r) ==
  /\ Done(r)
  /\ ~Excepted(r)
  /\ calls[r] = <<"main">>
  /\ MainCandidate(r).t = "dict"
  /\ Get(MainCandidate(r), "rewrite", Str(<<>>)).t = "str"
  /\ Strip(Get(MainCandidate(r), "rewrite", Str(<<>>)).v) = <<>>

\* C12 as stated: a candidate whose rewrite is missing or empty gets the
\* generic template of the tone and of detect_language(text, lang_hint),
\* so for lang_hint = auto the template of the language detected from the
\* text.
C12_EmptyRewriteTemplate ==
  \A r \in Requests :
    EmptyRewrite(r) =>
      response[r].rewrite =
        get_generic_rewrite(request[r].tone,
                            detect_language(request[r].text, request[r].lang_hint))

\* The main candidate of r was normalized and answered, and the language
\* it declares, trimmed and in lower case, is none of en, fr, ar, darija.
InvalidLanguage(r) ==
  /\ Done(r)
  /\ ~Excepted(r)
  /\ calls[r] = <<"main">>
  /\ MainCandidate(r).t = "dict"
  /\ Declared(MainCandidate(r)) \notin LANGUAGES

\* C13 as stated: a candidate whose language is not a supported one gets
\* the language detect_language(text, lang_hint), so the hint when the
\* hint is not auto.
C13_InvalidLanguageUsesHint ==
  \A r \in Requests :
    InvalidLanguage(r) =>
      response[r].language = detect_language(request[r].text, request[r].lang_hint)

\* C14 as stated: what the main call of the client returns is null or a
\* mapping, whatever the service answered.
C14_ClientYieldsNullOrMapping ==
  \A r \in Requests :
    (calls[r] # <<>> /\ pc[r] # "main") =>
      \/ call_gemini_once(exchange[r].main) = Scalar(None)
      \/ call_gemini_once(exchange[r].main).t = "dict"

\* The main candidate of r once normalized, the candidate being the one of
\* fallback_mediation where the service gave none; Raised if normalizing
\* it raised.
Provisional(r) ==
  validate_and_fix_response(
    IF MainCandidate(r) = Scalar(None)
      THEN fallback_mediation(request[r].text, request[r].tone, request[r].lang_hint)
      ELSE MainCandidate(r),
    request[r].text, request[r].tone, request[r].lang_hint)

\* The regenerated candidate of r once normalized, Raised if normalizing
\* it raised.
Renormalized(r) ==
  validate_and_fix_response(
    call_gemini_strict_retry(exchange[r].strict, request[r].tone,
                             Provisional(r).d.language.v),
    request[r].text, request[r].tone, request[r].lang_hint)

\* C15: the strict retry is issued only once the main candidate has been
\* normalized and the guard has flagged its rewrite: a request waiting for
\* the retry holds that normalized, flagged candidate; a request answered
\* after the main call alone had a provisional rewrite the guard did not
\* flag (or raised); a request answered after a retry had a flagged
\* provisional rewrite and issued exactly one retry, and the second guard
\* check was made on the normalized regenerated candidate.
C15_RegenerationOrder ==
  \A r \in Requests :
    /\ pc[r] = "strict" =>
         /\ result[r] = Provisional(r)
         /\ result[r] # Raised
         /\ Flagged(result[r].d.rewrite.v)
    /\ (Done(r) /\ calls[r] = <<"main">>) =>
         \/ Provisional(r) = Raised
         \/ ~Flagged(Provisional(r).d.rewrite.v)
    /\ Regenerated(r) =>
         /\ Provisional(r) # Raised
         /\ Flagged(Provisional(r).d.rewrite.v)
         /\ Cardinality({i \in DOMAIN calls[r] : calls[r][i] = "strict"}) = 1
         /\ Excepted(r) <=> Renormalized(r) = Raised
         /\ ~Excepted(r) =>
              response[r].rewrite =
                IF Flagged(Renormalized(r).d.rewrite.v)
                  THEN get_generic_rewrite(request[r].tone, Renormalized(r).d.language.v)
                  ELSE Renormalized(r).d.rewrite.v

\* C15 witness: a regenerated candidate without a rewrite is normalized
\* first, the guard then finds the generic template clean, and the
\* candidate keeps its own risk_level.
C15_Witness ==
  \E r \in Requests :
    /\ Regenerated(r)
    /\ ~Excepted(r)
    /\ StrictCandidate(r).t = "dict"
    /\ StrictCandidate(r).d.rewrite = Missing
    /\ response[r].risk_level = S("dangerous")
    /\ response[r].rewrite = get_generic_rewrite(request[r].tone, request[r].lang_hint)

\* validate_and_fix_response has returned a result for the probed
\* candidate.
Normalized == probe.fn = "validate_and_fix_response" /\ probe.out \notin {Pending, Raised}

\* What the probed candidate says its risk_level is: the string under the
\* key, trimmed and in lower case, and nothing when the key is missing or
\* holds a value that is not a string.
SaidRisk ==
  IF probe.arg.d.risk_level.t = "str" THEN Lower(Strip(probe.arg.d.risk_level.v)) ELSE <<>>

\* C16: the normalized risk_level is what the candidate said, trimmed and
\* in lower case, when that is safe, harmful or dangerous, and harmful in
\* every other case; it is safe only if the candidate said safe.
C16_RiskFailSafe ==
  Normalized =>
    /\ probe.out.d.risk_level.v = IF SaidRisk \in RISK_LEVELS THEN SaidRisk ELSE S("harmful")
    /\ probe.out.d.risk_level.v = S("safe") => SaidRisk = S("safe")

\* C16 witness: a candidate whose risk_level is a list holding "safe" is
\* normalized to harmful.
C16_Witness ==
  /\ Normalized
  /\ probe.arg.d.risk_level = List("['safe']")
  /\ probe.out.d.risk_level.v = S("harmful")

\* detect_language has returned for the probed text and hint.
Detected == probe.fn = "detect_language" /\ probe.out # Pending

\* A character of the Arabic block, U+0600..U+06FF.
IsArabicScript(c) == Ord(c) >= 1536 /\ Ord(c) <= 1791

\* The French accented letters, in lower case.
FRENCH_ACCENTED ==
  {"U+00E9", "U+00E8", "U+00EA", "U+00EB", "U+00E0", "U+00E2", "U+00E4", "U+00F9", "U+00FB",
   "U+00FC", "U+00F4", "U+00F6", "U+00EE", "U+00EF", "U+00E7"}

HasArabicScript(text) == \E i \in 1..Len(text) : IsArabicScript(text[i])
HasFrenchAccent(text) == \E i \in 1..Len(text) : LowerChar(text[i]) \in FRENCH_ACCENTED
HasDarijaMarker(text) ==
  \E m \in 1..Len(darija_markers) : Contains(Lower(text), darija_markers[m])
IsPlainASCII(text) == \A i \in 1..Len(text) : Len(text[i]) = 1

\* C17 as stated: with the hint auto, detect_language returns ar for a
\* text with an Arabic-script character and no Darija marker, darija for
\* one with an Arabic-script character and a Darija marker, fr for one with
\* a French accented character and no Arabic-script character, en for
\* plain ASCII; with another hint it returns the hint.
C17_DetectLanguage ==
  Detected =>
    IF probe.lang # S("auto") THEN probe.out.v = probe.lang
    ELSE IF HasArabicScript(probe.text)
      THEN probe.out.v = IF HasDarijaMarker(probe.text) THEN S("darija") ELSE S("ar")
    ELSE IF HasFrenchAccent(probe.text) THEN probe.out.v = S("fr")
    ELSE IsPlainASCII(probe.text) => probe.out.v = S("en")

\* C18: with a credential configured, a request whose text the Lexical
\* Guard flags is never answered safe: its risk_level is harmful or
\* dangerous, whatever the candidates of the service said.
C18_FlaggedTextNeverSafe ==
  \A r \in Requests :
    (GEMINI_API_KEY # <<>> /\ Done(r) /\ contains_profanity(request[r].text)) =>
      response[r].risk_level \in {S("harmful"), S("dangerous")}

\* C18 witness: the service classified a flagged text safe, with a clean
\* rewrite, and the answer is harmful with the explanation of the final
\* check.
C18_Witness ==
  \E r \in Requests :
    /\ GEMINI_API_KEY # <<>>
    /\ Done(r)
    /\ contains_profanity(request[r].text)
    /\ MainCandidate(r).t = "dict"
    /\ LastRisk(r) = S("safe")
    /\ response[r].risk_level = S("harmful")
    /\ response[r].why = S("Message contains inappropriate language.")

\* C19: when the generic rewrite override fires, the answer is harmful
\* whatever risk_level the regenerated candidate had, and its why and
\* language are those of the normalized regenerated candidate.
C19_OverrideSetsHarmful ==
  \A r \in Requests :
    Overridden(r) =>
      /\ response[r].risk_level = S("harmful")
      /\ response[r].why = Renormalized(r).d.why.v
      /\ response[r].language = Renormalized(r).d.language.v

\* C19 witness: a regenerated candidate classified dangerous, with a
\* rewrite still flagged, is answered harmful with its own explanation.
C19_Witness ==
  \E r \in Requests :
    /\ Overridden(r)
    /\ LastRisk(r) = S("dangerous")
    /\ response[r].risk_level = S("harmful")
    /\ response[r].why = S("Because.")

====
